---------------------------- MODULE Spec2Model ----------------------------
(***************************************************************************)
(* Model of the pomodoro session logic of PomodoroTimerDialog              *)
(* (src/pomodoro.py).  The object's fields are the state, each button      *)
(* handler and the QTimer timeout slot is one action, and the Qt signals   *)
(* a handler emits are recorded, in order, in `emitted`.                   *)
(***************************************************************************)
EXTENDS Integers, Sequences, FiniteSets, TLC

(* ------------------------------ bounds -------------------------------- *)
\* Largest number of minutes a duration spin box is given.
MaxMinutes == 2
\* Largest value the cycles spin box is given.
MaxCyclesSetting == 2
\* cycles_completed is unbounded in the code; the model stops counting here.
MaxCyclesCompleted == 3

(* ------------------------- program constants -------------------------- *)
SecondsPerMinute == 60
\* The minimum of every spin box of PomodoroSettingsDialog.
MinSpinBoxValue == 1

STATE_IDLE == "IDLE"
STATE_WORK == "WORK"
STATE_SHORT_BREAK == "SHORT_BREAK"
STATE_LONG_BREAK == "LONG_BREAK"
STATE_WAITING_FOR_WORK_CONFIRMATION == "WAITING_FOR_WORK_CONFIRMATION"
STATE_WAITING_FOR_SHORT_BREAK_CONFIRMATION == "WAITING_FOR_SHORT_BREAK_CONFIRMATION"
STATE_WAITING_FOR_LONG_BREAK_CONFIRMATION == "WAITING_FOR_LONG_BREAK_CONFIRMATION"
STATE_SNOOZING == "SNOOZING"

TimedStates ==
    {STATE_WORK, STATE_SHORT_BREAK, STATE_LONG_BREAK, STATE_SNOOZING}

WaitingStates ==
    {STATE_WAITING_FOR_WORK_CONFIRMATION,
     STATE_WAITING_FOR_SHORT_BREAK_CONFIRMATION,
     STATE_WAITING_FOR_LONG_BREAK_CONFIRMATION}

NonTimedStates == {STATE_IDLE} \cup WaitingStates

States == TimedStates \cup NonTimedStates

(* ---------------------------- PomodoroConfig -------------------------- *)
\* The configurations the model tries: the work duration and the cycle count
\* vary; the short break and the snooze stay at the spin boxes' minimum and the
\* long break at the largest value tried, so that a work duration can be
\* shorter than, equal to or longer than a break.
PomodoroConfig ==
    [work_duration_minutes : MinSpinBoxValue..MaxMinutes,
     short_break_minutes : {MinSpinBoxValue},
     long_break_minutes : {MaxMinutes},
     cycles_before_long_break : MinSpinBoxValue..MaxCyclesSetting,
     snooze_duration_minutes : {MinSpinBoxValue}]

get_work_duration_seconds(cfg) == cfg.work_duration_minutes * SecondsPerMinute
get_short_break_seconds(cfg) == cfg.short_break_minutes * SecondsPerMinute
get_long_break_seconds(cfg) == cfg.long_break_minutes * SecondsPerMinute
get_snooze_duration_seconds(cfg) == cfg.snooze_duration_minutes * SecondsPerMinute

(* ------------------------------- signals ------------------------------ *)
\* One emitted Qt signal: its name, its str argument and, for
\* pomodoro_state_changed, its int argument (0 for the one-argument signals).
pomodoro_state_changed(st, secs) ==
    [sig |-> "pomodoro_state_changed", arg |-> st, secs |-> secs]
pomodoro_session_finished(st) ==
    [sig |-> "pomodoro_session_finished", arg |-> st, secs |-> 0]
pomodoro_confirmation_required(kind) ==
    [sig |-> "pomodoro_confirmation_required", arg |-> kind, secs |-> 0]
pomodoro_snooze_activated(kind) ==
    [sig |-> "pomodoro_snooze_activated", arg |-> kind, secs |-> 0]

Emit(self, e) == [self EXCEPT !.emitted = Append(@, e)]

(* ------------------------------- state -------------------------------- *)
VARIABLES
    current_state,          \* self.current_state
    cycles_completed,       \* self.cycles_completed
    remaining_seconds,      \* self.remaining_seconds
    session_type_to_confirm_after_snooze,
    timer_active,           \* self.timer.isActive()
    logic_config,           \* self.logic_config
    emitted,                \* signals emitted by the last handler, in order
    last_op,                \* history: the handler that ran last
    prev_state,             \* history: current_state before that handler
    run_ticks,              \* history: timeouts since a phase was started, -1 once
                            \*          any other handler ran in between
    work_completions,       \* history: Work phases completed since the last reset
    work_confirm_skips,     \* history: skips of a work confirmation since then
    snoozed_from,           \* history: the state the last snooze was taken in
    prev_active             \* history: timer_active before the last handler

\* The character window (AnimeCharacter in main.py), which owns the timer
\* dialog.
VARIABLES
    char_current_state,     \* AnimeCharacter.current_state
    dragging,               \* self.dragging
    was_simple_click,       \* self.was_simple_click
    animation_group,        \* self.animation_group: the slot connected to its
                            \*   finished signal, its state() and the end
                            \*   value of its geometry animation
    geometry,               \* self.geometry(): the window's x position
    normal_geometry,        \* self.normal_geometry
    left_button_down,       \* the mouse: the left button is held
    char_last_op,           \* history: the character's handler that ran last
    char_prev_state         \* history: char_current_state before that handler

pomodoro_vars == <<current_state, cycles_completed, remaining_seconds,
                   session_type_to_confirm_after_snooze, timer_active,
                   logic_config, emitted, last_op, prev_state, run_ticks,
                   work_completions, work_confirm_skips, snoozed_from,
                   prev_active>>

char_vars == <<char_current_state, dragging, was_simple_click, animation_group,
               geometry, normal_geometry, left_button_down, char_last_op,
               char_prev_state>>

vars == <<pomodoro_vars, char_vars>>

\* The object as the handlers see it on entry (nothing emitted yet).
Self ==
    [current_state |-> current_state,
     cycles_completed |-> cycles_completed,
     remaining_seconds |-> remaining_seconds,
     session_type_to_confirm_after_snooze |-> session_type_to_confirm_after_snooze,
     timer_active |-> timer_active,
     logic_config |-> logic_config,
     emitted |-> <<>>]


\* PomodoroSettingsDialog.get_logic_config: what an accepted settings dialog
\* can hand back, each spin box anywhere in its range.
get_logic_config ==
    [work_duration_minutes : MinSpinBoxValue..MaxMinutes,
     short_break_minutes : MinSpinBoxValue..MaxMinutes,
     long_break_minutes : MinSpinBoxValue..MaxMinutes,
     cycles_before_long_break : MinSpinBoxValue..MaxCyclesSetting,
     snooze_duration_minutes : MinSpinBoxValue..MaxMinutes]

(* ------------------------ the character window ------------------------ *)
NORMAL == "normal"
DRAGGING == "dragging"
COLLAPSED == "collapsed"

LeftButton == "LeftButton"
RightButton == "RightButton"
MouseButtons == {LeftButton, RightButton}

\* The x positions a drag can leave the window at, 0 up to the right-most one
\* that shows it whole, where initialize_ui puts it; collapsed, the window
\* sits further right, part of it off the screen.
MaxScreenX == 2
ScreenX == 0..MaxScreenX
CollapsedX == MaxScreenX + 1

\* self.animation_group = None
no_animation_group == [slot |-> "None", state |-> "Stopped", end |-> 0]

\* The character as its handlers see it on entry.
Character ==
    [current_state |-> char_current_state,
     dragging |-> dragging,
     was_simple_click |-> was_simple_click,
     animation_group |-> animation_group,
     geometry |-> geometry,
     normal_geometry |-> normal_geometry]

\* self.animation_group and self.animation_group.state() == Running
animation_running(self) ==
    /\ self.animation_group.slot # "None"
    /\ self.animation_group.state = "Running"

\* Variant: a collapse is started over a running animation.
collapse_to_right_ignores_animation(self, pixmap_is_null) ==
    IF self.current_state = COLLAPSED /\ ~animation_running(self)
    THEN self
    ELSE LET s1 == [self EXCEPT !.normal_geometry = self.geometry]
         IN  IF pixmap_is_null
             THEN s1
             ELSE [s1 EXCEPT
                      !.animation_group = [slot |-> "collapse",
                                           state |-> "Running",
                                           end |-> CollapsedX],
                      !.current_state = COLLAPSED]

\* collapse_to_right: a new animation group is made, connected to
\* _on_collapse_animation_finished and started; the composite image being
\* null gives up before that.
collapse_to_right(self, pixmap_is_null) ==
    IF self.current_state = COLLAPSED \/ animation_running(self)
    THEN self
    ELSE LET s1 == [self EXCEPT !.normal_geometry = self.geometry]
         IN  IF pixmap_is_null
             THEN s1
             ELSE [s1 EXCEPT
                      !.animation_group = [slot |-> "collapse",
                                           state |-> "Running",
                                           end |-> CollapsedX],
                      !.current_state = COLLAPSED]

\* Variant: an expand is started over a running animation.
expand_ignores_animation(self) ==
    IF self.current_state # COLLAPSED
    THEN self
    ELSE [self EXCEPT
             !.animation_group = [slot |-> "expand", state |-> "Running",
                                  end |-> self.normal_geometry]]

\* expand: normal_geometry is set in __init__ and by every collapse, so its
\* test never rejects.
expand(self) ==
    IF self.current_state # COLLAPSED \/ animation_running(self)
    THEN self
    ELSE [self EXCEPT
             !.animation_group = [slot |-> "expand", state |-> "Running",
                                  end |-> self.normal_geometry]]

\* _on_collapse_animation_finished only rotates the picture.
on_collapse_animation_finished(self) == self

\* _on_expand_animation_finished
on_expand_animation_finished(self) == [self EXCEPT !.current_state = NORMAL]

mouseDoubleClickEvent(self, button, pixmap_is_null) ==
    IF button = LeftButton
    THEN LET s1 == [self EXCEPT !.was_simple_click = FALSE]
         IN  IF s1.current_state = COLLAPSED
             THEN expand(s1)
             ELSE IF s1.current_state = NORMAL
                  THEN collapse_to_right(s1, pixmap_is_null)
                  ELSE s1
    ELSE self

mousePressEvent(self, button) ==
    LET s1 == [self EXCEPT !.was_simple_click = FALSE]
    IN  IF s1.current_state = COLLAPSED
        THEN IF button = LeftButton THEN expand(s1) ELSE s1
        ELSE IF button = LeftButton
             THEN [s1 EXCEPT !.dragging = TRUE, !.was_simple_click = TRUE]
             ELSE s1

\* mouseMoveEvent with only the left button held; beyond_drag_distance says
\* whether the pointer is startDragDistance() or more from where it was
\* pressed, new_x where the pointer takes the window, clamped to the screen.
mouseMoveEvent(self, beyond_drag_distance, new_x) ==
    IF self.dragging
    THEN LET s1 == IF beyond_drag_distance
                   THEN [self EXCEPT !.was_simple_click = FALSE,
                                     !.current_state = DRAGGING]
                   ELSE self
         IN  IF s1.current_state = DRAGGING
             THEN [s1 EXCEPT !.geometry = new_x, !.normal_geometry = new_x]
             ELSE s1
    ELSE self

mouseReleaseEvent(self, button) ==
    IF self.current_state = COLLAPSED
    THEN self
    ELSE IF button = LeftButton
         THEN [self EXCEPT
                  !.current_state = IF @ = DRAGGING THEN NORMAL ELSE @,
                  !.dragging = FALSE,
                  !.was_simple_click = FALSE]
         ELSE self

(* ------------------------------ the logic ----------------------------- *)
\* Variant: every waiting state shows the work duration.
set_time_for_state_confirmations_show_work(self, state_to_set_time_for) ==
    LET cfg == self.logic_config IN
    [self EXCEPT !.remaining_seconds =
        CASE state_to_set_time_for = STATE_WORK -> get_work_duration_seconds(cfg)
          [] state_to_set_time_for = STATE_SHORT_BREAK -> get_short_break_seconds(cfg)
          [] state_to_set_time_for = STATE_LONG_BREAK -> get_long_break_seconds(cfg)
          [] state_to_set_time_for = STATE_SNOOZING -> get_snooze_duration_seconds(cfg)
          [] state_to_set_time_for \in NonTimedStates -> get_work_duration_seconds(cfg)
          [] OTHER -> @]

\* set_time_for_state: the duration shown for a state; a state it does not
\* know leaves remaining_seconds as it is.
set_time_for_state(self, state_to_set_time_for) ==
    LET cfg == self.logic_config IN
    [self EXCEPT !.remaining_seconds =
        CASE state_to_set_time_for = STATE_WORK -> get_work_duration_seconds(cfg)
          [] state_to_set_time_for = STATE_SHORT_BREAK -> get_short_break_seconds(cfg)
          [] state_to_set_time_for = STATE_LONG_BREAK -> get_long_break_seconds(cfg)
          [] state_to_set_time_for = STATE_SNOOZING -> get_snooze_duration_seconds(cfg)
          [] state_to_set_time_for = STATE_IDLE -> get_work_duration_seconds(cfg)
          [] state_to_set_time_for = STATE_WAITING_FOR_WORK_CONFIRMATION ->
                get_work_duration_seconds(cfg)
          [] state_to_set_time_for = STATE_WAITING_FOR_SHORT_BREAK_CONFIRMATION ->
                get_short_break_seconds(cfg)
          [] state_to_set_time_for = STATE_WAITING_FOR_LONG_BREAK_CONFIRMATION ->
                get_long_break_seconds(cfg)
          [] OTHER -> @]

\* Variant: a state entered without starting the timer keeps the seconds
\* that were left.
transition_to_state_keeps_time(self, new_state, start_timer) ==
    LET e == [self EXCEPT !.current_state = new_state]
        s1 == set_time_for_state(e, new_state)
    IN  IF start_timer /\ s1.remaining_seconds > 0
        THEN Emit([s1 EXCEPT !.timer_active = TRUE],
                  pomodoro_state_changed(s1.current_state, s1.remaining_seconds))
        ELSE IF ~start_timer
             THEN [e EXCEPT !.timer_active = FALSE]
             ELSE s1

\* Variant: the timer is started whenever there is time to count, whatever
\* start_timer says.
transition_to_state_always_starts(self, new_state, start_timer) ==
    LET s1 == set_time_for_state([self EXCEPT !.current_state = new_state],
                                 new_state)
    IN  IF s1.remaining_seconds > 0
        THEN Emit([s1 EXCEPT !.timer_active = TRUE],
                  pomodoro_state_changed(s1.current_state, s1.remaining_seconds))
        ELSE [s1 EXCEPT !.timer_active = FALSE]

\* transition_to_state: start_timer with nothing to count leaves the timer
\* as it was; without start_timer the timer is stopped.
transition_to_state(self, new_state, start_timer) ==
    LET s1 == set_time_for_state([self EXCEPT !.current_state = new_state],
                                 new_state)
    IN  IF start_timer /\ s1.remaining_seconds > 0
        THEN Emit([s1 EXCEPT !.timer_active = TRUE],
                  pomodoro_state_changed(s1.current_state, s1.remaining_seconds))
        ELSE IF ~start_timer
             THEN [s1 EXCEPT !.timer_active = FALSE]
             ELSE s1

go_to_idle_state(self) == transition_to_state(self, STATE_IDLE, FALSE)

\* Variant: the long break is decided on the count before its increment.
next_after_completion_preincrement(finished_session, cycles, cfg, snooze_type) ==
    IF finished_session = STATE_WORK
    THEN IF cycles - 1 > 0 /\ (cycles - 1) % cfg.cycles_before_long_break = 0
         THEN [state |-> STATE_WAITING_FOR_LONG_BREAK_CONFIRMATION,
               type |-> "long_break"]
         ELSE [state |-> STATE_WAITING_FOR_SHORT_BREAK_CONFIRMATION,
               type |-> "short_break"]
    ELSE IF finished_session \in {STATE_SHORT_BREAK, STATE_LONG_BREAK}
    THEN [state |-> STATE_WAITING_FOR_WORK_CONFIRMATION, type |-> "work"]
    ELSE IF finished_session = STATE_SNOOZING
    THEN [state |-> CASE snooze_type = "work" -> STATE_WAITING_FOR_WORK_CONFIRMATION
                      [] snooze_type = "short_break" ->
                            STATE_WAITING_FOR_SHORT_BREAK_CONFIRMATION
                      [] snooze_type = "long_break" ->
                            STATE_WAITING_FOR_LONG_BREAK_CONFIRMATION
                      [] OTHER -> STATE_IDLE,
          type |-> snooze_type]
    ELSE [state |-> STATE_IDLE, type |-> ""]

\* The waiting state and confirmation type process_timed_session_completion
\* picks for the session that ended; `cycles` is the count after its increment.
next_after_completion(finished_session, cycles, cfg, snooze_type) ==
    IF finished_session = STATE_WORK
    THEN IF cycles > 0 /\ cycles % cfg.cycles_before_long_break = 0
         THEN [state |-> STATE_WAITING_FOR_LONG_BREAK_CONFIRMATION,
               type |-> "long_break"]
         ELSE [state |-> STATE_WAITING_FOR_SHORT_BREAK_CONFIRMATION,
               type |-> "short_break"]
    ELSE IF finished_session \in {STATE_SHORT_BREAK, STATE_LONG_BREAK}
    THEN [state |-> STATE_WAITING_FOR_WORK_CONFIRMATION, type |-> "work"]
    ELSE IF finished_session = STATE_SNOOZING
    THEN [state |-> CASE snooze_type = "work" -> STATE_WAITING_FOR_WORK_CONFIRMATION
                      [] snooze_type = "short_break" ->
                            STATE_WAITING_FOR_SHORT_BREAK_CONFIRMATION
                      [] snooze_type = "long_break" ->
                            STATE_WAITING_FOR_LONG_BREAK_CONFIRMATION
                      [] OTHER -> STATE_IDLE,
          type |-> snooze_type]
    ELSE [state |-> STATE_IDLE, type |-> ""]

\* Variant: every finished session counts as a cycle, breaks included.
process_timed_session_completion_counts_breaks(self) ==
    LET finished_session == self.current_state
        s1 == IF finished_session \in
                   {STATE_WORK, STATE_SHORT_BREAK, STATE_LONG_BREAK}
              THEN [Emit(self, pomodoro_session_finished(finished_session))
                       EXCEPT !.cycles_completed = @ + 1]
              ELSE self
        nxt == next_after_completion(finished_session, s1.cycles_completed,
                                     s1.logic_config,
                                     s1.session_type_to_confirm_after_snooze)
        s3 == transition_to_state(s1, nxt.state, FALSE)
    IN  IF nxt.type # ""
        THEN Emit(s3, pomodoro_confirmation_required(nxt.type))
        ELSE s3

\* Variant: the end of a snooze is announced as a finished session too.
process_timed_session_completion_announces_snooze(self) ==
    LET finished_session == self.current_state
        s1 == IF finished_session \in TimedStates
              THEN Emit(self, pomodoro_session_finished(finished_session))
              ELSE self
        s2 == IF finished_session = STATE_WORK
              THEN [s1 EXCEPT !.cycles_completed = @ + 1]
              ELSE s1
        nxt == next_after_completion(finished_session, s2.cycles_completed,
                                     s2.logic_config,
                                     s2.session_type_to_confirm_after_snooze)
        s3 == transition_to_state(s2, nxt.state, FALSE)
    IN  IF nxt.type # ""
        THEN Emit(s3, pomodoro_confirmation_required(nxt.type))
        ELSE s3

\* Variant: the confirmation is requested before the finished session is
\* announced.
process_timed_session_completion_confirms_first(self) ==
    LET finished_session == self.current_state
        s2 == IF finished_session = STATE_WORK
              THEN [self EXCEPT !.cycles_completed = @ + 1]
              ELSE self
        nxt == next_after_completion(finished_session, s2.cycles_completed,
                                     s2.logic_config,
                                     s2.session_type_to_confirm_after_snooze)
        s3 == transition_to_state(s2, nxt.state, FALSE)
        s4 == IF nxt.type # ""
              THEN Emit(s3, pomodoro_confirmation_required(nxt.type))
              ELSE s3
    IN  IF finished_session \in {STATE_WORK, STATE_SHORT_BREAK, STATE_LONG_BREAK}
        THEN Emit(s4, pomodoro_session_finished(finished_session))
        ELSE s4

process_timed_session_completion(self) ==
    LET finished_session == self.current_state
        s1 == IF finished_session \in
                   {STATE_WORK, STATE_SHORT_BREAK, STATE_LONG_BREAK}
              THEN Emit(self, pomodoro_session_finished(finished_session))
              ELSE self
        s2 == IF finished_session = STATE_WORK
              THEN [s1 EXCEPT !.cycles_completed = @ + 1]
              ELSE s1
        nxt == next_after_completion(finished_session, s2.cycles_completed,
                                     s2.logic_config,
                                     s2.session_type_to_confirm_after_snooze)
        s3 == transition_to_state(s2, nxt.state, FALSE)
    IN  IF nxt.type # ""
        THEN Emit(s3, pomodoro_confirmation_required(nxt.type))
        ELSE s3

\* Variant: the timeout that reaches 0 stops the timer and leaves the session
\* where it is.
update_timer_countdown_stops_at_zero(self) ==
    LET s1 == IF self.remaining_seconds > 0
              THEN LET d == [self EXCEPT !.remaining_seconds = @ - 1]
                   IN  IF d.timer_active
                       THEN Emit(d, pomodoro_state_changed(d.current_state,
                                                           d.remaining_seconds))
                       ELSE d
              ELSE self
    IN  IF s1.remaining_seconds <= 0 /\ s1.timer_active
        THEN [s1 EXCEPT !.timer_active = FALSE]
        ELSE s1

\* Variant: the timeout that reaches 0 does not complete the session.
update_timer_countdown_never_completes(self) ==
    IF self.remaining_seconds > 0
    THEN LET d == [self EXCEPT !.remaining_seconds = @ - 1]
         IN  IF d.timer_active
             THEN Emit(d, pomodoro_state_changed(d.current_state,
                                                 d.remaining_seconds))
             ELSE d
    ELSE self

\* Variant: the timeout reports the seconds left before it takes one off.
update_timer_countdown_emits_before_decrement(self) ==
    LET s1 == IF self.remaining_seconds > 0
              THEN LET e == IF self.timer_active
                            THEN Emit(self, pomodoro_state_changed(
                                                self.current_state,
                                                self.remaining_seconds))
                            ELSE self
                   IN  [e EXCEPT !.remaining_seconds = @ - 1]
              ELSE self
    IN  IF s1.remaining_seconds <= 0 /\ s1.timer_active
        THEN process_timed_session_completion([s1 EXCEPT !.timer_active = FALSE])
        ELSE s1

\* Variant: the end of the countdown is tested before the decrement, so the
\* session ends one timeout late.
update_timer_countdown_tests_first(self) ==
    IF self.remaining_seconds <= 0 /\ self.timer_active
    THEN process_timed_session_completion([self EXCEPT !.timer_active = FALSE])
    ELSE IF self.remaining_seconds > 0
         THEN LET d == [self EXCEPT !.remaining_seconds = @ - 1]
              IN  IF d.timer_active
                  THEN Emit(d, pomodoro_state_changed(d.current_state,
                                                      d.remaining_seconds))
                  ELSE d
         ELSE self

\* The slot of timer.timeout.
update_timer_countdown(self) ==
    LET s1 == IF self.remaining_seconds > 0
              THEN LET d == [self EXCEPT !.remaining_seconds = @ - 1]
                   IN  IF d.timer_active
                       THEN Emit(d, pomodoro_state_changed(d.current_state,
                                                           d.remaining_seconds))
                       ELSE d
              ELSE self
    IN  IF s1.remaining_seconds <= 0 /\ s1.timer_active
        THEN process_timed_session_completion([s1 EXCEPT !.timer_active = FALSE])
        ELSE s1

\* Variant: a confirmed long break starts as a short one.
handle_main_action_button_click_long_starts_short(self) ==
    CASE self.current_state = STATE_IDLE ->
            transition_to_state(self, STATE_WORK, TRUE)
      [] self.current_state \in TimedStates ->
            IF self.timer_active
            THEN [self EXCEPT !.timer_active = FALSE]
            ELSE IF self.remaining_seconds > 0
                 THEN [self EXCEPT !.timer_active = TRUE]
                 ELSE self
      [] self.current_state = STATE_WAITING_FOR_WORK_CONFIRMATION ->
            transition_to_state(self, STATE_WORK, TRUE)
      [] self.current_state = STATE_WAITING_FOR_SHORT_BREAK_CONFIRMATION ->
            transition_to_state(self, STATE_SHORT_BREAK, TRUE)
      [] self.current_state = STATE_WAITING_FOR_LONG_BREAK_CONFIRMATION ->
            transition_to_state(self, STATE_SHORT_BREAK, TRUE)
      [] OTHER -> self

\* Variant: resuming a paused countdown starts the phase over.
handle_main_action_button_click_resume_restarts(self) ==
    CASE self.current_state = STATE_IDLE ->
            transition_to_state(self, STATE_WORK, TRUE)
      [] self.current_state \in TimedStates ->
            IF self.timer_active
            THEN [self EXCEPT !.timer_active = FALSE]
            ELSE transition_to_state(self, self.current_state, TRUE)
      [] self.current_state = STATE_WAITING_FOR_WORK_CONFIRMATION ->
            transition_to_state(self, STATE_WORK, TRUE)
      [] self.current_state = STATE_WAITING_FOR_SHORT_BREAK_CONFIRMATION ->
            transition_to_state(self, STATE_SHORT_BREAK, TRUE)
      [] self.current_state = STATE_WAITING_FOR_LONG_BREAK_CONFIRMATION ->
            transition_to_state(self, STATE_LONG_BREAK, TRUE)
      [] OTHER -> self

handle_main_action_button_click(self) ==
    CASE self.current_state = STATE_IDLE ->
            transition_to_state(self, STATE_WORK, TRUE)
      [] self.current_state \in TimedStates ->
            IF self.timer_active
            THEN [self EXCEPT !.timer_active = FALSE]
            ELSE IF self.remaining_seconds > 0
                 THEN [self EXCEPT !.timer_active = TRUE]
                 ELSE self
      [] self.current_state = STATE_WAITING_FOR_WORK_CONFIRMATION ->
            transition_to_state(self, STATE_WORK, TRUE)
      [] self.current_state = STATE_WAITING_FOR_SHORT_BREAK_CONFIRMATION ->
            transition_to_state(self, STATE_SHORT_BREAK, TRUE)
      [] self.current_state = STATE_WAITING_FOR_LONG_BREAK_CONFIRMATION ->
            transition_to_state(self, STATE_LONG_BREAK, TRUE)
      [] OTHER -> self

\* Variant: a snoozed long break confirmation is not recorded.
snooze_types_forgets_long_break(state) ==
    CASE state = STATE_WAITING_FOR_WORK_CONFIRMATION ->
            [confirm |-> "work", applied_to |-> "work"]
      [] state = STATE_WAITING_FOR_SHORT_BREAK_CONFIRMATION ->
            [confirm |-> "short_break", applied_to |-> "break"]
      [] state = STATE_WAITING_FOR_LONG_BREAK_CONFIRMATION ->
            [confirm |-> "", applied_to |-> "break"]
      [] OTHER -> [confirm |-> "", applied_to |-> ""]

\* Variant: both break confirmations are recorded as the short break.
snooze_types_breaks_alike(state) ==
    CASE state = STATE_WAITING_FOR_WORK_CONFIRMATION ->
            [confirm |-> "work", applied_to |-> "work"]
      [] state \in {STATE_WAITING_FOR_SHORT_BREAK_CONFIRMATION,
                    STATE_WAITING_FOR_LONG_BREAK_CONFIRMATION} ->
            [confirm |-> "short_break", applied_to |-> "break"]
      [] OTHER -> [confirm |-> "", applied_to |-> ""]

\* What the snooze button records and reports for the state it is clicked in.
snooze_types(state) ==
    CASE state = STATE_WAITING_FOR_WORK_CONFIRMATION ->
            [confirm |-> "work", applied_to |-> "work"]
      [] state = STATE_WAITING_FOR_SHORT_BREAK_CONFIRMATION ->
            [confirm |-> "short_break", applied_to |-> "break"]
      [] state = STATE_WAITING_FOR_LONG_BREAK_CONFIRMATION ->
            [confirm |-> "long_break", applied_to |-> "break"]
      [] OTHER -> [confirm |-> "", applied_to |-> ""]

\* Variant: the snooze is not announced.
handle_snooze_button_click_silent(self) ==
    IF self.current_state \notin WaitingStates
    THEN self
    ELSE LET t == snooze_types(self.current_state)
             s1 == [self EXCEPT !.session_type_to_confirm_after_snooze = t.confirm]
         IN  transition_to_state(s1, STATE_SNOOZING, TRUE)

\* Variant: the snooze button is not rejected outside the waiting states.
handle_snooze_button_click_unguarded(self) ==
    LET t == snooze_types(self.current_state)
        s1 == [self EXCEPT !.session_type_to_confirm_after_snooze = t.confirm]
        s2 == transition_to_state(s1, STATE_SNOOZING, TRUE)
    IN  IF t.applied_to # ""
        THEN Emit(s2, pomodoro_snooze_activated(t.applied_to))
        ELSE s2

\* Variant: the snooze does not record what it defers.
handle_snooze_button_click_unrecorded(self) ==
    IF self.current_state \notin WaitingStates
    THEN self
    ELSE LET t == snooze_types(self.current_state)
             s2 == transition_to_state(self, STATE_SNOOZING, TRUE)
         IN  IF t.applied_to # ""
             THEN Emit(s2, pomodoro_snooze_activated(t.applied_to))
             ELSE s2

handle_snooze_button_click(self) ==
    IF self.current_state \notin WaitingStates
    THEN self
    ELSE LET t == snooze_types(self.current_state)
             s1 == [self EXCEPT !.session_type_to_confirm_after_snooze = t.confirm]
             s2 == transition_to_state(s1, STATE_SNOOZING, TRUE)
         IN  IF t.applied_to # ""
             THEN Emit(s2, pomodoro_snooze_activated(t.applied_to))
             ELSE s2

\* Variant: the skip button is rejected while the countdown is paused.
handle_skip_button_click_needs_running(self) ==
    LET s0 == [self EXCEPT !.timer_active = FALSE]
        st == s0.current_state
    IN  CASE st \in TimedStates ->
                IF self.timer_active
                THEN process_timed_session_completion(
                         [s0 EXCEPT !.remaining_seconds = 0])
                ELSE s0
          [] st = STATE_WAITING_FOR_WORK_CONFIRMATION ->
                LET s1 == [Emit(s0, pomodoro_session_finished(STATE_WORK))
                              EXCEPT !.cycles_completed = @ + 1]
                IN  IF s1.cycles_completed
                          % s1.logic_config.cycles_before_long_break = 0
                    THEN Emit(transition_to_state(
                                  s1, STATE_WAITING_FOR_LONG_BREAK_CONFIRMATION, FALSE),
                              pomodoro_confirmation_required("long_break"))
                    ELSE Emit(transition_to_state(
                                  s1, STATE_WAITING_FOR_SHORT_BREAK_CONFIRMATION, FALSE),
                              pomodoro_confirmation_required("short_break"))
          [] st \in {STATE_WAITING_FOR_SHORT_BREAK_CONFIRMATION,
                     STATE_WAITING_FOR_LONG_BREAK_CONFIRMATION} ->
                LET original_break_type ==
                        IF st = STATE_WAITING_FOR_SHORT_BREAK_CONFIRMATION
                        THEN STATE_SHORT_BREAK ELSE STATE_LONG_BREAK
                    s1 == Emit(s0, pomodoro_session_finished(original_break_type))
                IN  Emit(transition_to_state(
                             s1, STATE_WAITING_FOR_WORK_CONFIRMATION, FALSE),
                         pomodoro_confirmation_required("work"))
          [] OTHER -> s0

\* Variant: a skipped work confirmation is routed by the count before its
\* increment.
handle_skip_button_click_routes_first(self) ==
    LET s0 == [self EXCEPT !.timer_active = FALSE]
        st == s0.current_state
    IN  CASE st \in TimedStates ->
                process_timed_session_completion(
                    [s0 EXCEPT !.remaining_seconds = 0])
          [] st = STATE_WAITING_FOR_WORK_CONFIRMATION ->
                LET s1 == [Emit(s0, pomodoro_session_finished(STATE_WORK))
                              EXCEPT !.cycles_completed = @ + 1]
                IN  IF s0.cycles_completed
                          % s1.logic_config.cycles_before_long_break = 0
                    THEN Emit(transition_to_state(
                                  s1, STATE_WAITING_FOR_LONG_BREAK_CONFIRMATION, FALSE),
                              pomodoro_confirmation_required("long_break"))
                    ELSE Emit(transition_to_state(
                                  s1, STATE_WAITING_FOR_SHORT_BREAK_CONFIRMATION, FALSE),
                              pomodoro_confirmation_required("short_break"))
          [] st \in {STATE_WAITING_FOR_SHORT_BREAK_CONFIRMATION,
                     STATE_WAITING_FOR_LONG_BREAK_CONFIRMATION} ->
                LET original_break_type ==
                        IF st = STATE_WAITING_FOR_SHORT_BREAK_CONFIRMATION
                        THEN STATE_SHORT_BREAK ELSE STATE_LONG_BREAK
                    s1 == Emit(s0, pomodoro_session_finished(original_break_type))
                IN  Emit(transition_to_state(
                             s1, STATE_WAITING_FOR_WORK_CONFIRMATION, FALSE),
                         pomodoro_confirmation_required("work"))
          [] OTHER -> s0

\* Variant: a skipped timed phase is abandoned for the work confirmation
\* instead of being completed.
handle_skip_button_click_abandons(self) ==
    LET s0 == [self EXCEPT !.timer_active = FALSE]
        st == s0.current_state
    IN  CASE st \in TimedStates ->
                Emit(transition_to_state(
                         Emit(s0, pomodoro_session_finished(st)),
                         STATE_WAITING_FOR_WORK_CONFIRMATION, FALSE),
                     pomodoro_confirmation_required("work"))
          [] st = STATE_WAITING_FOR_WORK_CONFIRMATION ->
                LET s1 == [Emit(s0, pomodoro_session_finished(STATE_WORK))
                              EXCEPT !.cycles_completed = @ + 1]
                IN  IF s1.cycles_completed
                          % s1.logic_config.cycles_before_long_break = 0
                    THEN Emit(transition_to_state(
                                  s1, STATE_WAITING_FOR_LONG_BREAK_CONFIRMATION, FALSE),
                              pomodoro_confirmation_required("long_break"))
                    ELSE Emit(transition_to_state(
                                  s1, STATE_WAITING_FOR_SHORT_BREAK_CONFIRMATION, FALSE),
                              pomodoro_confirmation_required("short_break"))
          [] st \in {STATE_WAITING_FOR_SHORT_BREAK_CONFIRMATION,
                     STATE_WAITING_FOR_LONG_BREAK_CONFIRMATION} ->
                LET original_break_type ==
                        IF st = STATE_WAITING_FOR_SHORT_BREAK_CONFIRMATION
                        THEN STATE_SHORT_BREAK ELSE STATE_LONG_BREAK
                    s1 == Emit(s0, pomodoro_session_finished(original_break_type))
                IN  Emit(transition_to_state(
                             s1, STATE_WAITING_FOR_WORK_CONFIRMATION, FALSE),
                         pomodoro_confirmation_required("work"))
          [] OTHER -> s0

\* Variant: skipping a break confirmation counts as a cycle.
handle_skip_button_click_counts_breaks(self) ==
    LET s0 == [self EXCEPT !.timer_active = FALSE]
        st == s0.current_state
    IN  CASE st \in TimedStates ->
                process_timed_session_completion(
                    [s0 EXCEPT !.remaining_seconds = 0])
          [] st = STATE_WAITING_FOR_WORK_CONFIRMATION ->
                LET s1 == [Emit(s0, pomodoro_session_finished(STATE_WORK))
                              EXCEPT !.cycles_completed = @ + 1]
                IN  IF s1.cycles_completed
                          % s1.logic_config.cycles_before_long_break = 0
                    THEN Emit(transition_to_state(
                                  s1, STATE_WAITING_FOR_LONG_BREAK_CONFIRMATION, FALSE),
                              pomodoro_confirmation_required("long_break"))
                    ELSE Emit(transition_to_state(
                                  s1, STATE_WAITING_FOR_SHORT_BREAK_CONFIRMATION, FALSE),
                              pomodoro_confirmation_required("short_break"))
          [] st \in {STATE_WAITING_FOR_SHORT_BREAK_CONFIRMATION,
                     STATE_WAITING_FOR_LONG_BREAK_CONFIRMATION} ->
                LET original_break_type ==
                        IF st = STATE_WAITING_FOR_SHORT_BREAK_CONFIRMATION
                        THEN STATE_SHORT_BREAK ELSE STATE_LONG_BREAK
                    s1 == [Emit(s0, pomodoro_session_finished(original_break_type))
                              EXCEPT !.cycles_completed = @ + 1]
                IN  Emit(transition_to_state(
                             s1, STATE_WAITING_FOR_WORK_CONFIRMATION, FALSE),
                         pomodoro_confirmation_required("work"))
          [] OTHER -> s0

\* Variant: skipping a work confirmation always asks for the short break,
\* whichever waiting state it enters.
handle_skip_button_click_asks_short(self) ==
    LET s0 == [self EXCEPT !.timer_active = FALSE]
        st == s0.current_state
    IN  CASE st \in TimedStates ->
                process_timed_session_completion(
                    [s0 EXCEPT !.remaining_seconds = 0])
          [] st = STATE_WAITING_FOR_WORK_CONFIRMATION ->
                LET s1 == [Emit(s0, pomodoro_session_finished(STATE_WORK))
                              EXCEPT !.cycles_completed = @ + 1]
                IN  IF s1.cycles_completed
                          % s1.logic_config.cycles_before_long_break = 0
                    THEN Emit(transition_to_state(
                                  s1, STATE_WAITING_FOR_LONG_BREAK_CONFIRMATION, FALSE),
                              pomodoro_confirmation_required("short_break"))
                    ELSE Emit(transition_to_state(
                                  s1, STATE_WAITING_FOR_SHORT_BREAK_CONFIRMATION, FALSE),
                              pomodoro_confirmation_required("short_break"))
          [] st \in {STATE_WAITING_FOR_SHORT_BREAK_CONFIRMATION,
                     STATE_WAITING_FOR_LONG_BREAK_CONFIRMATION} ->
                LET original_break_type ==
                        IF st = STATE_WAITING_FOR_SHORT_BREAK_CONFIRMATION
                        THEN STATE_SHORT_BREAK ELSE STATE_LONG_BREAK
                    s1 == Emit(s0, pomodoro_session_finished(original_break_type))
                IN  Emit(transition_to_state(
                             s1, STATE_WAITING_FOR_WORK_CONFIRMATION, FALSE),
                         pomodoro_confirmation_required("work"))
          [] OTHER -> s0

handle_skip_button_click(self) ==
    LET s0 == [self EXCEPT !.timer_active = FALSE]
        st == s0.current_state
    IN  CASE st \in TimedStates ->
                process_timed_session_completion(
                    [s0 EXCEPT !.remaining_seconds = 0])
          [] st = STATE_WAITING_FOR_WORK_CONFIRMATION ->
                LET s1 == [Emit(s0, pomodoro_session_finished(STATE_WORK))
                              EXCEPT !.cycles_completed = @ + 1]
                IN  IF s1.cycles_completed
                          % s1.logic_config.cycles_before_long_break = 0
                    THEN Emit(transition_to_state(
                                  s1, STATE_WAITING_FOR_LONG_BREAK_CONFIRMATION, FALSE),
                              pomodoro_confirmation_required("long_break"))
                    ELSE Emit(transition_to_state(
                                  s1, STATE_WAITING_FOR_SHORT_BREAK_CONFIRMATION, FALSE),
                              pomodoro_confirmation_required("short_break"))
          [] st \in {STATE_WAITING_FOR_SHORT_BREAK_CONFIRMATION,
                     STATE_WAITING_FOR_LONG_BREAK_CONFIRMATION} ->
                LET original_break_type ==
                        IF st = STATE_WAITING_FOR_SHORT_BREAK_CONFIRMATION
                        THEN STATE_SHORT_BREAK ELSE STATE_LONG_BREAK
                    s1 == Emit(s0, pomodoro_session_finished(original_break_type))
                IN  Emit(transition_to_state(
                             s1, STATE_WAITING_FOR_WORK_CONFIRMATION, FALSE),
                         pomodoro_confirmation_required("work"))
          [] OTHER -> s0

\* Variant: the reset leaves cycles_completed alone.
handle_reset_button_click_keeps_cycles(self) ==
    LET s1 == go_to_idle_state([self EXCEPT !.timer_active = FALSE])
    IN  Emit(s1, pomodoro_state_changed(s1.current_state, s1.remaining_seconds))

handle_reset_button_click(self) ==
    LET s1 == go_to_idle_state([self EXCEPT !.timer_active = FALSE,
                                            !.cycles_completed = 0])
    IN  Emit(s1, pomodoro_state_changed(s1.current_state, s1.remaining_seconds))

\* handle_settings_button_click up to settings_dialog.exec_(): the timer is
\* stopped while the modal dialog is open.
handle_settings_button_click_open(self) ==
    [self EXCEPT !.timer_active = FALSE]

\* Variant: the timer stopped for the dialog is not started again.
handle_settings_button_click_close_leaves_stopped(self, was_active, accepted, new_logic_config) ==
    IF accepted
    THEN LET c == [self EXCEPT !.logic_config = new_logic_config]
         IN  IF c.current_state \in NonTimedStates
             THEN set_time_for_state(c, c.current_state)
             ELSE IF c.current_state = STATE_SNOOZING
                  THEN set_time_for_state(c, STATE_SNOOZING)
                  ELSE c
    ELSE self

\* Variant: an accepted change reloads the time of whatever state is current.
handle_settings_button_click_close_reloads_all(self, was_active, accepted, new_logic_config) ==
    LET s1 == IF accepted
              THEN set_time_for_state([self EXCEPT !.logic_config = new_logic_config],
                                      self.current_state)
              ELSE self
    IN  IF was_active /\ s1.current_state \notin NonTimedStates
           /\ s1.remaining_seconds > 0
        THEN [s1 EXCEPT !.timer_active = TRUE]
        ELSE s1

\* Variant: an accepted change does not reload the time of a state that is
\* not counting.
handle_settings_button_click_close_stale(self, was_active, accepted, new_logic_config) ==
    LET s1 == IF accepted
              THEN LET c == [self EXCEPT !.logic_config = new_logic_config]
                   IN  IF c.current_state = STATE_SNOOZING
                       THEN set_time_for_state(c, STATE_SNOOZING)
                       ELSE c
              ELSE self
    IN  IF was_active /\ s1.current_state \notin NonTimedStates
           /\ s1.remaining_seconds > 0
        THEN [s1 EXCEPT !.timer_active = TRUE]
        ELSE s1

\* handle_settings_button_click after exec_() returned `accepted`, the dialog
\* holding new_logic_config.
handle_settings_button_click_close(self, was_active, accepted, new_logic_config) ==
    LET s1 == IF accepted
              THEN LET c == [self EXCEPT !.logic_config = new_logic_config]
                   IN  IF c.current_state \in NonTimedStates
                       THEN set_time_for_state(c, c.current_state)
                       ELSE IF c.current_state = STATE_SNOOZING
                            THEN set_time_for_state(c, STATE_SNOOZING)
                            ELSE c
              ELSE self
    IN  IF was_active /\ s1.current_state \notin NonTimedStates
           /\ s1.remaining_seconds > 0
        THEN [s1 EXCEPT !.timer_active = TRUE]
        ELSE s1

\* settings_dialog.exec_() is modal: no other handler of the timer dialog
\* runs between the two halves of handle_settings_button_click.
handle_settings_button_click(self, accepted, new_logic_config) ==
    handle_settings_button_click_close(
        handle_settings_button_click_open(self), self.timer_active,
        accepted, new_logic_config)

(* ------------------------------- actions ------------------------------ *)
\* __init__: the fields are set, then go_to_idle_state() runs; the host
\* passes the PomodoroConfig.
Init ==
    \E cfg \in PomodoroConfig :
        LET s == go_to_idle_state(
                     [current_state |-> STATE_IDLE,
                      cycles_completed |-> 0,
                      remaining_seconds |-> 0,
                      session_type_to_confirm_after_snooze |-> "",
                      timer_active |-> FALSE,
                      logic_config |-> cfg,
                      emitted |-> <<>>])
        IN  /\ current_state = s.current_state
            /\ cycles_completed = s.cycles_completed
            /\ remaining_seconds = s.remaining_seconds
            /\ session_type_to_confirm_after_snooze
                    = s.session_type_to_confirm_after_snooze
            /\ timer_active = s.timer_active
            /\ logic_config = s.logic_config
            /\ emitted = s.emitted
            /\ last_op = "init"
            /\ prev_state = STATE_IDLE
            /\ run_ticks = -1
            /\ work_completions = 0
            /\ work_confirm_skips = 0
            /\ snoozed_from = ""
            /\ prev_active = FALSE
            /\ char_current_state = NORMAL
            /\ dragging = FALSE
            /\ was_simple_click = FALSE
            /\ animation_group = no_animation_group
            /\ geometry = MaxScreenX
            /\ normal_geometry = MaxScreenX
            /\ left_button_down = FALSE
            /\ char_last_op = "init"
            /\ char_prev_state = NORMAL

\* The fields after a handler returned `s`, and the history of the step.
Becomes(s, op) ==
    /\ s.cycles_completed <= MaxCyclesCompleted
    /\ current_state' = s.current_state
    /\ cycles_completed' = s.cycles_completed
    /\ remaining_seconds' = s.remaining_seconds
    /\ session_type_to_confirm_after_snooze'
            = s.session_type_to_confirm_after_snooze
    /\ timer_active' = s.timer_active
    /\ logic_config' = s.logic_config
    /\ emitted' = s.emitted
    /\ last_op' = op
    /\ prev_state' = current_state
    /\ run_ticks' =
            IF op = "main_action" /\ current_state \in NonTimedStates
            THEN 0
            ELSE IF op = "timeout" /\ run_ticks >= 0
                 THEN run_ticks + 1
                 ELSE -1
    /\ work_completions' =
            IF op = "reset"
            THEN 0
            ELSE IF op \in {"timeout", "skip"} /\ current_state = STATE_WORK
                    /\ s.current_state # STATE_WORK
                 THEN work_completions + 1
                 ELSE work_completions
    /\ work_confirm_skips' =
            IF op = "reset"
            THEN 0
            ELSE IF op = "skip"
                    /\ current_state = STATE_WAITING_FOR_WORK_CONFIRMATION
                 THEN work_confirm_skips + 1
                 ELSE work_confirm_skips
    /\ snoozed_from' =
            IF op = "snooze" /\ current_state \in WaitingStates
            THEN current_state
            ELSE snoozed_from
    /\ prev_active' = timer_active
    /\ UNCHANGED char_vars

\* The main action button is clicked.
MainAction ==
    /\ Becomes(handle_main_action_button_click(Self), "main_action")

\* The one-second QTimer fires; it does so only while it is active.
Timeout ==
    /\ timer_active
    /\ Becomes(update_timer_countdown(Self), "timeout")

Snooze ==
    /\ Becomes(handle_snooze_button_click(Self), "snooze")

Skip ==
    /\ Becomes(handle_skip_button_click(Self), "skip")

Reset ==
    /\ Becomes(handle_reset_button_click(Self), "reset")

\* The settings button is clicked and the modal dialog is accepted with the
\* spin boxes' values.
SettingsAccept ==
    \E new_logic_config \in PomodoroConfig :
        Becomes(handle_settings_button_click(Self, TRUE, new_logic_config),
                "settings_accept")

\* The settings button is clicked and the modal dialog is cancelled.
SettingsReject ==
    Becomes(handle_settings_button_click(Self, FALSE, logic_config),
            "settings_reject")

Next ==
    \/ MainAction
    \/ Timeout
    \/ Snooze
    \/ Skip
    \/ Reset
    \/ SettingsAccept
    \/ SettingsReject

Spec == Init /\ [][Next]_vars

\* The same program when no accepted settings change alters
\* cycles_before_long_break.
SettingsAcceptSameCycles ==
    \E new_logic_config \in PomodoroConfig :
        /\ new_logic_config.cycles_before_long_break
                = logic_config.cycles_before_long_break
        /\ Becomes(handle_settings_button_click(Self, TRUE, new_logic_config),
                   "settings_accept")

NextFixedCycles ==
    \/ MainAction
    \/ Timeout
    \/ Snooze
    \/ Skip
    \/ Reset
    \/ SettingsAcceptSameCycles
    \/ SettingsReject

SpecFixedCycles == Init /\ [][NextFixedCycles]_vars


\* The same program left to count: the main action button is used only to
\* start a phase (never to pause one), nobody resets or opens the settings,
\* and the one-second QTimer, while it is active, keeps firing.
StartPhase ==
    /\ current_state \in NonTimedStates
    /\ Becomes(handle_main_action_button_click(Self), "main_action")

NextTicking ==
    \/ StartPhase
    \/ Timeout
    \/ Snooze
    \/ Skip

SpecTicking == Init /\ [][NextTicking]_vars /\ WF_vars(Timeout)

\* The character window alone: the mouse presses, moves and releases, and a
\* running animation finishes.  The timer dialog is left as constructed.
CharBecomes(c, op) ==
    /\ char_current_state' = c.current_state
    /\ dragging' = c.dragging
    /\ was_simple_click' = c.was_simple_click
    /\ animation_group' = c.animation_group
    /\ geometry' = c.geometry
    /\ normal_geometry' = c.normal_geometry
    /\ char_last_op' = op
    /\ char_prev_state' = char_current_state
    /\ UNCHANGED pomodoro_vars

\* A button goes down; the left one only when it is up.
MousePress ==
    \E button \in MouseButtons :
        /\ button = LeftButton => ~left_button_down
        /\ left_button_down' = (left_button_down \/ button = LeftButton)
        /\ CharBecomes(mousePressEvent(Character, button), "press")

\* The second press of a double click is delivered as a double click.
MouseDoubleClick ==
    \E button \in MouseButtons, pixmap_is_null \in BOOLEAN :
        /\ button = LeftButton => ~left_button_down
        /\ left_button_down' = (left_button_down \/ button = LeftButton)
        /\ CharBecomes(mouseDoubleClickEvent(Character, button, pixmap_is_null),
                       "double_click")

\* The pointer moves with only the left button held.
MouseMove ==
    \E beyond_drag_distance \in BOOLEAN, new_x \in ScreenX :
        /\ left_button_down
        /\ UNCHANGED left_button_down
        /\ CharBecomes(mouseMoveEvent(Character, beyond_drag_distance, new_x),
                       "move")

MouseRelease ==
    \E button \in MouseButtons :
        /\ button = LeftButton => left_button_down
        /\ left_button_down' = (left_button_down /\ button # LeftButton)
        /\ CharBecomes(mouseReleaseEvent(Character, button), "release")

\* The running animation group reaches its end and emits finished, which
\* runs the slot connected to it.
AnimationFinished ==
    /\ animation_running(Character)
    /\ UNCHANGED left_button_down
    /\ LET stopped == [Character EXCEPT
                          !.animation_group.state = "Stopped",
                          !.geometry = animation_group.end]
       IN  IF stopped.animation_group.slot = "collapse"
           THEN CharBecomes(on_collapse_animation_finished(stopped),
                            "collapse_finished")
           ELSE CharBecomes(on_expand_animation_finished(stopped),
                            "expand_finished")

NextCharacter ==
    \/ MousePress
    \/ MouseDoubleClick
    \/ MouseMove
    \/ MouseRelease
    \/ AnimationFinished

SpecCharacter == Init /\ [][NextCharacter]_vars

(* ------------------------------- claims ------------------------------- *)
\* The signals of one kind among those the last handler emitted.
EmittedOf(sig) == SelectSeq(emitted, LAMBDA e : e.sig = sig)

\* C1 as stated: after reset() the state is Idle with remaining_seconds = 0,
\* the timer stopped and cycles_completed = 0.
C1_ResetYieldsZeroRemaining ==
    last_op = "reset" =>
        /\ current_state = STATE_IDLE
        /\ remaining_seconds = 0
        /\ ~timer_active
        /\ cycles_completed = 0

\* C1 amended: after reset(), from any phase, the state is Idle, the timer is
\* stopped, cycles_completed = 0 and remaining_seconds shows the configured
\* work duration.
C1_ResetYieldsIdle ==
    last_op = "reset" =>
        /\ current_state = STATE_IDLE
        /\ remaining_seconds = get_work_duration_seconds(logic_config)
        /\ ~timer_active
        /\ cycles_completed = 0

\* A reset taken during a long break, which only a completed work phase
\* leads to.
C1_Witness ==
    /\ last_op = "reset"
    /\ prev_state = STATE_LONG_BREAK
    /\ current_state = STATE_IDLE

\* C2 as stated: in Idle, remaining_seconds = 0.
C2_IdleHasZeroRemaining ==
    current_state = STATE_IDLE => remaining_seconds = 0

\* C2 amended: in Idle, remaining_seconds is the configured work duration
\* (never 0), at startup, after a reset and after a settings change.
C2_IdleShowsWorkDuration ==
    current_state = STATE_IDLE =>
        /\ remaining_seconds = get_work_duration_seconds(logic_config)
        /\ remaining_seconds > 0

\* Idle after the settings dialog changed the work duration to the largest
\* value tried.
C2_Witness ==
    /\ current_state = STATE_IDLE
    /\ last_op = "settings_accept"
    /\ logic_config.work_duration_minutes = MaxMinutes
    /\ remaining_seconds = MaxMinutes * SecondsPerMinute

\* C3: whenever the one-second timer is active the state is Work, ShortBreak,
\* LongBreak or Snoozing.
C3_RunningImpliesTimedState ==
    timer_active => current_state \in TimedStates

\* The timer restarted by the settings handler during a snooze.
C3_Witness ==
    /\ timer_active
    /\ current_state = STATE_SNOOZING
    /\ last_op = "settings_accept"

\* C4 as stated: the pending confirm kind is set exactly in the three waiting
\* states and in Snoozing.
C4_PendingKindIffWaitingOrSnoozing ==
    (session_type_to_confirm_after_snooze # "")
        <=> (current_state \in WaitingStates \cup {STATE_SNOOZING})

\* C4 amended: in Snoozing the pending confirm kind is set, and right after
\* the snooze it names the confirmation that was deferred; before the first
\* snooze it is empty in every state, and afterwards it keeps, in every state,
\* what the last snooze recorded.
C4_PendingKindSetWhileSnoozing ==
    /\ current_state = STATE_SNOOZING =>
            session_type_to_confirm_after_snooze
                \in {"work", "short_break", "long_break"}
    /\ (last_op = "snooze" /\ prev_state \in WaitingStates) =>
            session_type_to_confirm_after_snooze = snooze_types(prev_state).confirm
    /\ snoozed_from = "" => session_type_to_confirm_after_snooze = ""
    /\ snoozed_from # "" =>
            session_type_to_confirm_after_snooze = snooze_types(snoozed_from).confirm

\* A snooze of the long-break confirmation.
C4_Witness ==
    /\ current_state = STATE_SNOOZING
    /\ last_op = "snooze"
    /\ prev_state = STATE_WAITING_FOR_LONG_BREAK_CONFIRMATION
    /\ session_type_to_confirm_after_snooze = "long_break"

\* The last handler ended a Work phase (its countdown ran out, or skip).
WorkCompleted ==
    /\ last_op \in {"timeout", "skip"}
    /\ prev_state = STATE_WORK
    /\ current_state # STATE_WORK

\* The last handler incremented cycles_completed.
CyclesIncremented ==
    \/ WorkCompleted
    \/ last_op = "skip" /\ prev_state = STATE_WAITING_FOR_WORK_CONFIRMATION

\* C5 as stated: the k-th Work completion since the last reset enters the
\* long-break confirmation exactly when k mod cycles_before_long_break = 0 and
\* the short-break one otherwise, so that the N-th one after a reset is the
\* first to enter the long break.
C5_KthWorkCompletionRoutes ==
    WorkCompleted =>
        LET k == work_completions
            N == logic_config.cycles_before_long_break
        IN  /\ k % N = 0 =>
                  current_state = STATE_WAITING_FOR_LONG_BREAK_CONFIRMATION
            /\ k % N # 0 =>
                  current_state = STATE_WAITING_FOR_SHORT_BREAK_CONFIRMATION

\* C5 amended: every increment of cycles_completed, by a Work completion or by
\* a skip of the work confirmation, enters the long-break confirmation exactly
\* when the new count k mod cycles_before_long_break = 0 and the short-break
\* one otherwise; k counts both kinds of increment since the last reset, which
\* sets it to 0.
C5_CountRoutes ==
    /\ CyclesIncremented =>
          LET k == cycles_completed
              N == logic_config.cycles_before_long_break
          IN  /\ k >= 1
              /\ k = work_completions + work_confirm_skips
              /\ k % N = 0 =>
                    current_state = STATE_WAITING_FOR_LONG_BREAK_CONFIRMATION
              /\ k % N # 0 =>
                    current_state = STATE_WAITING_FOR_SHORT_BREAK_CONFIRMATION
    /\ last_op = "reset" =>
          cycles_completed = 0 /\ work_completions = 0 /\ work_confirm_skips = 0

\* The second increment enters the long break with a cycle length of 2, one
\* of the two increments being a skipped work confirmation.
C5_Witness ==
    /\ CyclesIncremented
    /\ logic_config.cycles_before_long_break = 2
    /\ cycles_completed = 2
    /\ work_confirm_skips = 1
    /\ current_state = STATE_WAITING_FOR_LONG_BREAK_CONFIRMATION

\* C6 as stated: cycles_completed is the number of Work phases completed since
\* the last reset.
C6_CyclesEqualWorkCompletions ==
    cycles_completed = work_completions

\* C6 amended: cycles_completed is the number of Work phases completed plus
\* the number of work confirmations skipped since the last reset.
C6_CyclesCountCompletionsAndSkips ==
    cycles_completed = work_completions + work_confirm_skips

\* A Work phase running after one completed Work phase and one skipped work
\* confirmation.
C6_Witness ==
    /\ current_state = STATE_WORK
    /\ work_completions = 1
    /\ work_confirm_skips = 1
    /\ cycles_completed = 2

\* C7: when a snooze ends, by its countdown or by skip, the state is the
\* waiting state the snooze was taken in.
C7_SnoozeReturnsToDeferred ==
    (/\ last_op \in {"timeout", "skip"}
     /\ prev_state = STATE_SNOOZING
     /\ current_state # STATE_SNOOZING)
        => /\ snoozed_from \in WaitingStates
           /\ current_state = snoozed_from

\* The countdown of a snoozed long-break confirmation ran out.
C7_Witness ==
    /\ last_op = "timeout"
    /\ prev_state = STATE_SNOOZING
    /\ snoozed_from = STATE_WAITING_FOR_LONG_BREAK_CONFIRMATION
    /\ current_state = STATE_WAITING_FOR_LONG_BREAK_CONFIRMATION

\* The configured duration of a state, in seconds.
DurationOf(state, cfg) ==
    CASE state \in {STATE_WORK, STATE_WAITING_FOR_WORK_CONFIRMATION, STATE_IDLE} ->
            cfg.work_duration_minutes * SecondsPerMinute
      [] state \in {STATE_SHORT_BREAK, STATE_WAITING_FOR_SHORT_BREAK_CONFIRMATION} ->
            cfg.short_break_minutes * SecondsPerMinute
      [] state \in {STATE_LONG_BREAK, STATE_WAITING_FOR_LONG_BREAK_CONFIRMATION} ->
            cfg.long_break_minutes * SecondsPerMinute
      [] OTHER -> cfg.snooze_duration_minutes * SecondsPerMinute

\* While run_ticks >= 0: the phase that was started and its duration D.
RunPhase == IF current_state \in TimedStates THEN current_state ELSE prev_state
RunDuration == DurationOf(RunPhase, logic_config)

\* C8 as stated: a phase started with duration D and ticked exactly D times
\* has remaining_seconds = 0 and emitted one SessionFinished.
C8_DTicksLeaveZeroRemaining ==
    (run_ticks >= 0 /\ run_ticks = RunDuration) =>
        /\ remaining_seconds = 0
        /\ Len(EmittedOf("pomodoro_session_finished")) = 1

\* C8 amended: a phase started with duration D and ticked k times with nothing
\* else in between is, for k < D, still running with D - k seconds left and no
\* SessionFinished emitted; the D-th tick emits exactly one SessionFinished,
\* for that phase, stops the timer and enters a waiting state, whose duration
\* is loaded into remaining_seconds (so remaining_seconds is then not 0).
C8_DTicksComplete ==
    run_ticks >= 0 =>
        IF run_ticks < RunDuration
        THEN /\ current_state \in {STATE_WORK, STATE_SHORT_BREAK, STATE_LONG_BREAK}
             /\ timer_active
             /\ remaining_seconds = RunDuration - run_ticks
             /\ EmittedOf("pomodoro_session_finished") = <<>>
        ELSE /\ run_ticks = RunDuration
             /\ current_state \in WaitingStates
             /\ ~timer_active
             /\ EmittedOf("pomodoro_session_finished")
                    = <<pomodoro_session_finished(prev_state)>>
             /\ remaining_seconds = DurationOf(current_state, logic_config)
             /\ remaining_seconds > 0

\* A long break of the largest duration tried, ticked to its end.
C8_Witness ==
    /\ run_ticks = MaxMinutes * SecondsPerMinute
    /\ prev_state = STATE_LONG_BREAK
    /\ current_state = STATE_WAITING_FOR_WORK_CONFIRMATION

\* C9: the handler that ends a Work, ShortBreak or LongBreak phase, by the
\* last timeout or by skip, emits SessionFinished exactly once, for that
\* phase; a timeout that does not end the phase and the end of a snooze emit
\* none.
C9_SessionFinishedOncePerCompletion ==
    LET fin == EmittedOf("pomodoro_session_finished") IN
    /\ (/\ last_op \in {"timeout", "skip"}
        /\ prev_state \in {STATE_WORK, STATE_SHORT_BREAK, STATE_LONG_BREAK}
        /\ current_state # prev_state)
          => fin = <<pomodoro_session_finished(prev_state)>>
    /\ (last_op = "timeout" /\ current_state = prev_state) => fin = <<>>
    /\ (last_op \in {"timeout", "skip"} /\ prev_state = STATE_SNOOZING)
          => fin = <<>>

\* A short break whose countdown ran out.
C9_Witness ==
    /\ last_op = "timeout"
    /\ prev_state = STATE_SHORT_BREAK
    /\ current_state = STATE_WAITING_FOR_WORK_CONFIRMATION
    /\ emitted = <<pomodoro_state_changed(STATE_SHORT_BREAK, 0),
                   pomodoro_session_finished(STATE_SHORT_BREAK),
                   pomodoro_confirmation_required("work")>>

\* The confirmation type of a waiting state.
ConfirmationTypeOf(state) ==
    CASE state = STATE_WAITING_FOR_WORK_CONFIRMATION -> "work"
      [] state = STATE_WAITING_FOR_SHORT_BREAK_CONFIRMATION -> "short_break"
      [] state = STATE_WAITING_FOR_LONG_BREAK_CONFIRMATION -> "long_break"
      [] OTHER -> ""

\* C10: a handler that enters a waiting state emits ConfirmationRequired
\* exactly once, with the type of that state; every other handler emits none.
C10_ConfirmationRequiredOnEntry ==
    LET conf == EmittedOf("pomodoro_confirmation_required") IN
    IF current_state \in WaitingStates /\ prev_state # current_state
    THEN conf = <<pomodoro_confirmation_required(ConfirmationTypeOf(current_state))>>
    ELSE conf = <<>>

\* The long-break confirmation entered by skipping a work confirmation.
C10_Witness ==
    /\ last_op = "skip"
    /\ prev_state = STATE_WAITING_FOR_WORK_CONFIRMATION
    /\ current_state = STATE_WAITING_FOR_LONG_BREAK_CONFIRMATION
    /\ EmittedOf("pomodoro_confirmation_required")
            = <<pomodoro_confirmation_required("long_break")>>

\* C11: among the signals of one handler, pomodoro_session_finished comes
\* before pomodoro_confirmation_required and no pomodoro_state_changed comes
\* after either of them; a finished session is always followed by its
\* confirmation request, and the timer is then stopped, so that the next
\* pomodoro_state_changed comes from a later handler.
C11_FinishedThenConfirmationThenTicks ==
    /\ \A i, j \in 1..Len(emitted) :
          /\ (/\ emitted[i].sig = "pomodoro_session_finished"
              /\ emitted[j].sig = "pomodoro_confirmation_required") => i < j
          /\ (/\ emitted[i].sig = "pomodoro_state_changed"
              /\ emitted[j].sig \in {"pomodoro_session_finished",
                                     "pomodoro_confirmation_required"}) => i < j
    /\ EmittedOf("pomodoro_session_finished") # <<>> =>
          /\ Len(EmittedOf("pomodoro_confirmation_required")) = 1
          /\ ~timer_active

\* The last timeout of a Work phase: the tick, the finished session, the
\* confirmation request, in this order.
C11_Witness ==
    /\ last_op = "timeout"
    /\ prev_state = STATE_WORK
    /\ emitted = <<pomodoro_state_changed(STATE_WORK, 0),
                   pomodoro_session_finished(STATE_WORK),
                   pomodoro_confirmation_required("long_break")>>

\* The object a handler returned, as the next handler sees it on entry.
Entering(self) == [self EXCEPT !.emitted = <<>>]

\* C12: in a running timed phase with r > 0 seconds left, the main action
\* button stops the timer and changes nothing else and emits nothing; while
\* the timer is stopped no timeout is delivered; the button pressed again
\* restores the running state with the same r seconds, phase and
\* cycles_completed.  Each timeout from there takes exactly one second off a
\* still running phase until the one that finds r = 1 ends the phase, so the
\* phase ends after exactly r timeouts.
C12_PauseKeepsRemaining ==
    /\ (current_state \in TimedStates /\ timer_active /\ remaining_seconds > 0) =>
          LET paused == handle_main_action_button_click(Self)
              resumed == handle_main_action_button_click(Entering(paused))
              ticked == update_timer_countdown(Entering(resumed))
          IN  /\ paused = [Self EXCEPT !.timer_active = FALSE]
              /\ resumed = Self
              /\ remaining_seconds > 1 =>
                    /\ ticked.current_state = current_state
                    /\ ticked.timer_active
                    /\ ticked.remaining_seconds = remaining_seconds - 1
              /\ remaining_seconds = 1 =>
                    /\ ticked.current_state \in WaitingStates
                    /\ ~ticked.timer_active
    /\ (current_state \in TimedStates /\ ~timer_active) => ~ENABLED Timeout

\* A Work phase resumed by the main action button after some timeouts.
C12_Witness ==
    /\ last_op = "main_action"
    /\ prev_state = STATE_WORK
    /\ current_state = STATE_WORK
    /\ timer_active
    /\ remaining_seconds < get_work_duration_seconds(logic_config)
    /\ emitted = <<>>

\* C13: the skip button pressed in WAITING_FOR_SHORT_BREAK_CONFIRMATION or
\* WAITING_FOR_LONG_BREAK_CONFIRMATION moves to WAITING_FOR_WORK_CONFIRMATION,
\* emits pomodoro_confirmation_required("work") and no pomodoro_state_changed,
\* sets remaining_seconds to the work duration with the timer stopped, and
\* leaves cycles_completed unchanged.
C13_SkipBreakConfirmation ==
    current_state \in {STATE_WAITING_FOR_SHORT_BREAK_CONFIRMATION,
                       STATE_WAITING_FOR_LONG_BREAK_CONFIRMATION} =>
        LET skipped == handle_skip_button_click(Self)
            signals == {skipped.emitted[i].sig : i \in 1..Len(skipped.emitted)}
        IN  /\ skipped.current_state = STATE_WAITING_FOR_WORK_CONFIRMATION
            /\ \E i \in 1..Len(skipped.emitted) :
                  skipped.emitted[i] = pomodoro_confirmation_required("work")
            /\ "pomodoro_state_changed" \notin signals
            /\ skipped.remaining_seconds = get_work_duration_seconds(logic_config)
            /\ ~skipped.timer_active
            /\ skipped.cycles_completed = cycles_completed

\* The long break confirmation skipped.
C13_Witness ==
    /\ last_op = "skip"
    /\ prev_state = STATE_WAITING_FOR_LONG_BREAK_CONFIRMATION
    /\ current_state = STATE_WAITING_FOR_WORK_CONFIRMATION
    /\ remaining_seconds = get_work_duration_seconds(logic_config)
    /\ ~timer_active
    /\ emitted = <<pomodoro_session_finished(STATE_LONG_BREAK),
                   pomodoro_confirmation_required("work")>>

\* C14: the snooze button outside the three waiting states and the skip
\* button in IDLE change no field and emit nothing.  The main action button
\* is one handler for starting and for pausing, and no state rejects it: in
\* IDLE and the waiting states it starts a phase, in a timed state it stops
\* or restarts the timer.
C14_RejectedOperationsChangeNothing ==
    /\ current_state \notin WaitingStates =>
          handle_snooze_button_click(Self) = Self
    /\ current_state = STATE_IDLE =>
          handle_skip_button_click(Self) = Self
    /\ LET pressed == handle_main_action_button_click(Self)
       IN  IF current_state \in TimedStates
           THEN pressed = [Self EXCEPT !.timer_active = ~timer_active]
           ELSE /\ pressed.current_state \in TimedStates
                /\ pressed.timer_active

\* C14 as stated: the main action button pressed in a timed state, where
\* there is nothing to start, is rejected as well.
C14_MainActionRejectedInTimedState ==
    /\ current_state \notin WaitingStates =>
          handle_snooze_button_click(Self) = Self
    /\ current_state = STATE_IDLE =>
          handle_skip_button_click(Self) = Self
    /\ current_state \in TimedStates =>
          handle_main_action_button_click(Self) = Self

\* The snooze button pressed during a running Work phase.
C14_Witness ==
    /\ last_op = "snooze"
    /\ prev_state = STATE_WORK
    /\ current_state = STATE_WORK
    /\ timer_active
    /\ remaining_seconds < get_work_duration_seconds(logic_config)
    /\ emitted = <<>>

\* C15: update_timer_countdown run while the timer is not active (IDLE, a
\* waiting state, or a paused timed state) changes no field and emits
\* nothing.
C15_TimeoutWhileStoppedChangesNothing ==
    ~timer_active => update_timer_countdown(Self) = Self

\* C16: the settings dialog accepted in IDLE or in a waiting state, whatever
\* it hands back, sets remaining_seconds to the new duration of the phase the
\* main action button would start there (work for IDLE and the work
\* confirmation, the short or long break for the break confirmations) and
\* leaves the state, the stopped timer and cycles_completed as they were.
C16_AcceptedSettingsReloadPreview ==
    current_state \in NonTimedStates =>
        \A new_logic_config \in get_logic_config :
            LET accepted == handle_settings_button_click(Self, TRUE, new_logic_config)
                started == handle_main_action_button_click(Entering(accepted))
            IN  /\ accepted.logic_config = new_logic_config
                /\ accepted.remaining_seconds
                        = DurationOf(started.current_state, new_logic_config)
                /\ accepted.remaining_seconds
                        = DurationOf(current_state, new_logic_config)
                /\ accepted.current_state = current_state
                /\ ~accepted.timer_active
                /\ accepted.cycles_completed = cycles_completed
                /\ accepted.emitted = <<>>

\* The work duration raised while the work confirmation is shown.
C16_Witness ==
    /\ last_op = "settings_accept"
    /\ prev_state = STATE_WAITING_FOR_WORK_CONFIRMATION
    /\ current_state = STATE_WAITING_FOR_WORK_CONFIRMATION
    /\ logic_config.work_duration_minutes = MaxMinutes
    /\ remaining_seconds = MaxMinutes * SecondsPerMinute
    /\ ~timer_active
    /\ cycles_completed > 0

\* C17 as stated: the settings dialog accepted while Work, ShortBreak,
\* LongBreak or Snoozing is counting leaves remaining_seconds as it was, and
\* the countdown runs on in the same state.
C17_AcceptedSettingsKeepEveryCountdown ==
    (current_state \in TimedStates /\ timer_active) =>
        \A new_logic_config \in get_logic_config :
            LET accepted == handle_settings_button_click(Self, TRUE, new_logic_config)
            IN  /\ accepted.remaining_seconds = remaining_seconds
                /\ accepted.timer_active
                /\ accepted.current_state = current_state

\* C17 amended: the settings dialog accepted while Work, ShortBreak or
\* LongBreak is counting leaves remaining_seconds as it was; accepted while
\* Snoozing is counting it restarts the snooze at the new snooze duration,
\* changed or not; in all four the countdown runs on in the same state.
C17_AcceptedSettingsKeepPhaseCountdown ==
    (current_state \in TimedStates /\ timer_active) =>
        \A new_logic_config \in get_logic_config :
            LET accepted == handle_settings_button_click(Self, TRUE, new_logic_config)
            IN  /\ accepted.remaining_seconds =
                        IF current_state = STATE_SNOOZING
                        THEN get_snooze_duration_seconds(new_logic_config)
                        ELSE remaining_seconds
                /\ accepted.timer_active
                /\ accepted.current_state = current_state
                /\ accepted.logic_config = new_logic_config
                /\ accepted.emitted = <<>>

\* The work duration changed in the middle of a Work phase.
C17_Witness ==
    /\ last_op = "settings_accept"
    /\ prev_state = STATE_WORK
    /\ current_state = STATE_WORK
    /\ timer_active
    /\ logic_config.work_duration_minutes = MinSpinBoxValue
    /\ remaining_seconds > MinSpinBoxValue * SecondsPerMinute

\* The pomodoro_state_changed signals a handler emitted, given what it
\* returned.
StateChangedOf(self) ==
    SelectSeq(self.emitted, LAMBDA e : e.sig = "pomodoro_state_changed")

\* C18 as stated: a handler emits pomodoro_state_changed once if it is the
\* timeout of the running timer and never otherwise.
C18_StateChangedOnlyByTimeout ==
    Len(EmittedOf("pomodoro_state_changed")) = IF last_op = "timeout" THEN 1 ELSE 0

\* C18 amended: a timeout of the running timer emits pomodoro_state_changed
\* exactly once, with the timed state it found and the seconds left after its
\* decrement; skip, pausing and resuming, and the settings dialog emit none;
\* but starting a phase and snoozing a confirmation emit one, with the state
\* started and its full duration, and reset emits one, with IDLE and the work
\* duration.
C18_StateChangedByTimeoutStartAndReset ==
    /\ timer_active =>
          /\ current_state \in TimedStates
          /\ remaining_seconds > 0
          /\ StateChangedOf(update_timer_countdown(Self))
                = <<pomodoro_state_changed(current_state, remaining_seconds - 1)>>
    /\ StateChangedOf(handle_skip_button_click(Self)) = <<>>
    /\ \A new_logic_config \in PomodoroConfig :
          StateChangedOf(handle_settings_button_click(Self, TRUE, new_logic_config))
                = <<>>
    /\ StateChangedOf(handle_settings_button_click(Self, FALSE, logic_config)) = <<>>
    /\ LET pressed == handle_main_action_button_click(Self)
       IN  StateChangedOf(pressed) =
                IF current_state \in TimedStates
                THEN <<>>
                ELSE <<pomodoro_state_changed(
                           pressed.current_state,
                           DurationOf(pressed.current_state, logic_config))>>
    /\ StateChangedOf(handle_snooze_button_click(Self)) =
            IF current_state \in WaitingStates
            THEN <<pomodoro_state_changed(
                       STATE_SNOOZING, get_snooze_duration_seconds(logic_config))>>
            ELSE <<>>
    /\ StateChangedOf(handle_reset_button_click(Self))
            = <<pomodoro_state_changed(
                    STATE_IDLE, get_work_duration_seconds(logic_config))>>

\* The last timeout of a long break reports 0 seconds left.
C18_Witness ==
    /\ last_op = "timeout"
    /\ prev_state = STATE_LONG_BREAK
    /\ current_state = STATE_WAITING_FOR_WORK_CONFIRMATION
    /\ EmittedOf("pomodoro_state_changed")
            = <<pomodoro_state_changed(STATE_LONG_BREAK, 0)>>

\* C19: the main action button pressed in IDLE or WAITING_FOR_WORK_CONFIRMATION
\* enters WORK with the work duration, in WAITING_FOR_SHORT_BREAK_CONFIRMATION
\* SHORT_BREAK with the short break duration, in
\* WAITING_FOR_LONG_BREAK_CONFIRMATION LONG_BREAK with the long break
\* duration; in all four the timer is started, cycles_completed is unchanged
\* and neither pomodoro_session_finished nor pomodoro_confirmation_required
\* is emitted.
C19_MainActionStartsPhase ==
    current_state \in NonTimedStates =>
        LET started == handle_main_action_button_click(Self)
        IN  /\ current_state \in {STATE_IDLE, STATE_WAITING_FOR_WORK_CONFIRMATION} =>
                  /\ started.current_state = STATE_WORK
                  /\ started.remaining_seconds
                        = get_work_duration_seconds(logic_config)
            /\ current_state = STATE_WAITING_FOR_SHORT_BREAK_CONFIRMATION =>
                  /\ started.current_state = STATE_SHORT_BREAK
                  /\ started.remaining_seconds
                        = get_short_break_seconds(logic_config)
            /\ current_state = STATE_WAITING_FOR_LONG_BREAK_CONFIRMATION =>
                  /\ started.current_state = STATE_LONG_BREAK
                  /\ started.remaining_seconds
                        = get_long_break_seconds(logic_config)
            /\ started.timer_active
            /\ started.cycles_completed = cycles_completed
            /\ \A i \in 1..Len(started.emitted) :
                  started.emitted[i].sig \notin {"pomodoro_session_finished",
                                                 "pomodoro_confirmation_required"}

\* A long break started from its confirmation.
C19_Witness ==
    /\ last_op = "main_action"
    /\ prev_state = STATE_WAITING_FOR_LONG_BREAK_CONFIRMATION
    /\ current_state = STATE_LONG_BREAK
    /\ remaining_seconds = get_long_break_seconds(logic_config)
    /\ timer_active
    /\ cycles_completed > 0

\* C20: the snooze button pressed in a waiting state enters SNOOZING with the
\* snooze duration and the timer started, records the confirmation of that
\* waiting state in session_type_to_confirm_after_snooze, leaves
\* cycles_completed unchanged and emits pomodoro_snooze_activated exactly
\* once, with "work" for the work confirmation and "break" for either break
\* confirmation.
C20_SnoozeDefersConfirmation ==
    current_state \in WaitingStates =>
        LET snoozed == handle_snooze_button_click(Self)
        IN  /\ snoozed.current_state = STATE_SNOOZING
            /\ snoozed.remaining_seconds = get_snooze_duration_seconds(logic_config)
            /\ snoozed.timer_active
            /\ snoozed.session_type_to_confirm_after_snooze
                    = ConfirmationTypeOf(current_state)
            /\ snoozed.cycles_completed = cycles_completed
            /\ SelectSeq(snoozed.emitted,
                         LAMBDA e : e.sig = "pomodoro_snooze_activated")
                    = <<pomodoro_snooze_activated(
                            IF current_state = STATE_WAITING_FOR_WORK_CONFIRMATION
                            THEN "work" ELSE "break")>>

\* The short break confirmation snoozed.
C20_Witness ==
    /\ last_op = "snooze"
    /\ prev_state = STATE_WAITING_FOR_SHORT_BREAK_CONFIRMATION
    /\ current_state = STATE_SNOOZING
    /\ timer_active
    /\ session_type_to_confirm_after_snooze = "short_break"
    /\ emitted = <<pomodoro_state_changed(
                       STATE_SNOOZING, get_snooze_duration_seconds(logic_config)),
                   pomodoro_snooze_activated("break")>>

\* What a handler left behind, as far as the end of a phase is concerned: the
\* fields, and the pomodoro_session_finished and
\* pomodoro_confirmation_required signals in the order emitted.
Outcome(self) ==
    [current_state |-> self.current_state,
     remaining_seconds |-> self.remaining_seconds,
     timer_active |-> self.timer_active,
     cycles_completed |-> self.cycles_completed,
     session_type_to_confirm_after_snooze
        |-> self.session_type_to_confirm_after_snooze,
     logic_config |-> self.logic_config,
     signals |-> SelectSeq(self.emitted,
                     LAMBDA e : e.sig \in {"pomodoro_session_finished",
                                           "pomodoro_confirmation_required"})]

\* C21: in a running timed state the skip button ends as the countdown run
\* to its end does.  With one second left the timeout and the skip leave the
\* same state, remaining_seconds, stopped timer and cycles_completed and emit
\* the same pomodoro_session_finished and pomodoro_confirmation_required;
\* with more left, a timeout keeps the phase running with one second less and
\* a skip after it ends as a skip before it, so by induction on the seconds
\* left the skip ends as remaining_seconds timeouts do.
C21_SkipEndsAsCountdownDoes ==
    (current_state \in TimedStates /\ timer_active /\ remaining_seconds > 0) =>
        LET skipped == handle_skip_button_click(Self)
            ticked == update_timer_countdown(Self)
        IN  /\ skipped.current_state \in WaitingStates
            /\ ~skipped.timer_active
            /\ IF remaining_seconds = 1
               THEN Outcome(ticked) = Outcome(skipped)
               ELSE /\ ticked.current_state = current_state
                    /\ ticked.timer_active
                    /\ ticked.remaining_seconds = remaining_seconds - 1
                    /\ Outcome(ticked).signals = <<>>
                    /\ Outcome(handle_skip_button_click(Entering(ticked)))
                            = Outcome(skipped)

\* A running Work phase skipped into the long break confirmation.
C21_Witness ==
    /\ last_op = "skip"
    /\ prev_state = STATE_WORK
    /\ prev_active
    /\ current_state = STATE_WAITING_FOR_LONG_BREAK_CONFIRMATION
    /\ ~timer_active
    /\ emitted = <<pomodoro_session_finished(STATE_WORK),
                   pomodoro_confirmation_required("long_break")>>

\* C22: the skip button pressed in WAITING_FOR_WORK_CONFIRMATION, where no
\* Work countdown ran, emits pomodoro_session_finished(WORK), adds one to
\* cycles_completed, and enters the long break confirmation if the new count
\* is a multiple of cycles_before_long_break and the short break one
\* otherwise, emitting the matching pomodoro_confirmation_required; it emits
\* no pomodoro_state_changed and leaves the timer stopped.
C22_SkipWorkConfirmationCounts ==
    current_state = STATE_WAITING_FOR_WORK_CONFIRMATION =>
        LET skipped == handle_skip_button_click(Self)
            long == (cycles_completed + 1)
                        % logic_config.cycles_before_long_break = 0
        IN  /\ skipped.cycles_completed = cycles_completed + 1
            /\ skipped.current_state =
                    IF long THEN STATE_WAITING_FOR_LONG_BREAK_CONFIRMATION
                            ELSE STATE_WAITING_FOR_SHORT_BREAK_CONFIRMATION
            /\ skipped.emitted =
                    <<pomodoro_session_finished(STATE_WORK),
                      pomodoro_confirmation_required(
                          IF long THEN "long_break" ELSE "short_break")>>
            /\ ~skipped.timer_active

\* A work confirmation skipped for the third cycle, with two cycles to the
\* long break.
C22_Witness ==
    /\ last_op = "skip"
    /\ prev_state = STATE_WAITING_FOR_WORK_CONFIRMATION
    /\ current_state = STATE_WAITING_FOR_SHORT_BREAK_CONFIRMATION
    /\ logic_config.cycles_before_long_break = 2
    /\ cycles_completed = 3
    /\ work_confirm_skips >= 1
    /\ ~timer_active
    /\ emitted = <<pomodoro_session_finished(STATE_WORK),
                   pomodoro_confirmation_required("short_break")>>

\* C23: in every waiting state the timer is stopped and remaining_seconds is
\* the configured duration of the phase being confirmed (work, short break or
\* long break), however the state was entered; an accepted settings dialog,
\* whatever it hands back, keeps it so for the new configuration.
C23_WaitingShowsTargetDuration ==
    current_state \in WaitingStates =>
        /\ ~timer_active
        /\ remaining_seconds = DurationOf(current_state, logic_config)
        /\ \A new_logic_config \in get_logic_config :
              LET accepted == handle_settings_button_click(Self, TRUE, new_logic_config)
              IN  /\ accepted.current_state = current_state
                  /\ ~accepted.timer_active
                  /\ accepted.remaining_seconds
                        = DurationOf(current_state, new_logic_config)

\* The short break confirmation entered from a Work phase whose work duration
\* was the largest tried.
C23_Witness ==
    /\ current_state = STATE_WAITING_FOR_SHORT_BREAK_CONFIRMATION
    /\ prev_state = STATE_WORK
    /\ last_op = "timeout"
    /\ logic_config.work_duration_minutes = MaxMinutes
    /\ remaining_seconds = get_short_break_seconds(logic_config)
    /\ ~timer_active

\* A timed state whose timer is counting.
Counting == current_state \in TimedStates /\ timer_active

\* The model stops counting cycles at MaxCyclesCompleted, so the Work phase
\* that would complete one more cycle is not followed to its end.
WithinCycleBound ==
    current_state = STATE_WORK => cycles_completed < MaxCyclesCompleted

\* C24: while the timer keeps firing and nobody pauses, resets or opens the
\* settings, a counting timed state leads to a waiting state with the timer
\* stopped, and until then every timeout leaves fewer seconds than it found.
C24_CountingLeadsToWaiting ==
    /\ [](Counting =>
            LET ticked == update_timer_countdown(Self)
            IN  \/ /\ ticked.current_state = current_state
                   /\ ticked.timer_active
                   /\ ticked.remaining_seconds < remaining_seconds
                \/ /\ ticked.current_state \in WaitingStates
                   /\ ~ticked.timer_active)
    /\ (Counting /\ WithinCycleBound)
            ~> (current_state \in WaitingStates /\ ~timer_active)

\* A snooze counted down to its end by the timer alone.
C24_Witness ==
    /\ last_op = "timeout"
    /\ prev_state = STATE_SNOOZING
    /\ prev_active
    /\ current_state \in WaitingStates
    /\ ~timer_active

\* C25: in SNOOZING session_type_to_confirm_after_snooze is "work",
\* "short_break" or "long_break", so the end of the snooze, by its last
\* timeout or by skip, enters a waiting state and emits
\* pomodoro_confirmation_required, never the fall-through to IDLE that emits
\* none.
C25_SnoozeTargetKnown ==
    /\ current_state = STATE_SNOOZING =>
          LET completed == process_timed_session_completion(
                               [Self EXCEPT !.timer_active = FALSE,
                                            !.remaining_seconds = 0])
          IN  /\ session_type_to_confirm_after_snooze
                    \in {"work", "short_break", "long_break"}
              /\ completed.current_state \in WaitingStates
              /\ completed.emitted =
                    <<pomodoro_confirmation_required(
                          session_type_to_confirm_after_snooze)>>
              /\ handle_skip_button_click(Self) = completed
    /\ (/\ last_op \in {"timeout", "skip"}
        /\ prev_state = STATE_SNOOZING
        /\ current_state # STATE_SNOOZING)
          => /\ current_state \in WaitingStates
             /\ EmittedOf("pomodoro_confirmation_required")
                    = <<pomodoro_confirmation_required(
                            ConfirmationTypeOf(current_state))>>

\* A snoozed short break confirmation brought back by skip.
C25_Witness ==
    /\ last_op = "skip"
    /\ prev_state = STATE_SNOOZING
    /\ current_state = STATE_WAITING_FOR_SHORT_BREAK_CONFIRMATION
    /\ session_type_to_confirm_after_snooze = "short_break"
    /\ emitted = <<pomodoro_confirmation_required("short_break")>>

\* C26: a timed state whose timer is stopped has remaining_seconds > 0, so
\* the main action button restarts its timer; an accepted settings dialog,
\* whatever it hands back, leaves it that way.  (The timer fires only while
\* it is active.)
C26_PausedHasTimeLeft ==
    (current_state \in TimedStates /\ ~timer_active) =>
        /\ remaining_seconds > 0
        /\ handle_main_action_button_click(Self) = [Self EXCEPT !.timer_active = TRUE]
        /\ \A new_logic_config \in get_logic_config :
              LET accepted == handle_settings_button_click(Self, TRUE, new_logic_config)
              IN  /\ accepted.current_state = current_state
                  /\ ~accepted.timer_active
                  /\ accepted.remaining_seconds > 0

\* A paused snooze after the settings dialog was accepted.
C26_Witness ==
    /\ current_state = STATE_SNOOZING
    /\ ~timer_active
    /\ ~prev_active
    /\ last_op = "settings_accept"
    /\ prev_state = STATE_SNOOZING
    /\ remaining_seconds > 0

\* C27: in every timed state 0 <= remaining_seconds <= the configured
\* duration of that state, also after the settings dialog was accepted during
\* the phase, running or paused.
C27_RemainingWithinConfiguredDuration ==
    current_state \in TimedStates =>
        /\ 0 <= remaining_seconds
        /\ remaining_seconds <= DurationOf(current_state, logic_config)

\* C28: the skip button pressed in a paused timed state does what it does in
\* the same state running: it runs the completion, which emits
\* pomodoro_session_finished for WORK and the breaks and adds one to
\* cycles_completed for WORK, and enters a waiting state with the timer
\* stopped.
C28_SkipWhilePausedCompletes ==
    /\ (current_state \in TimedStates /\ ~timer_active) =>
          LET skipped == handle_skip_button_click(Self)
              finished == SelectSeq(skipped.emitted,
                              LAMBDA e : e.sig = "pomodoro_session_finished")
          IN  /\ skipped = handle_skip_button_click(
                               [Self EXCEPT !.timer_active = TRUE])
              /\ skipped.current_state \in WaitingStates
              /\ ~skipped.timer_active
              /\ finished =
                    IF current_state = STATE_SNOOZING
                    THEN <<>>
                    ELSE <<pomodoro_session_finished(current_state)>>
              /\ skipped.cycles_completed =
                    IF current_state = STATE_WORK
                    THEN cycles_completed + 1
                    ELSE cycles_completed
    /\ (last_op = "skip" /\ prev_state \in TimedStates /\ ~prev_active) =>
          /\ current_state \in WaitingStates
          /\ ~timer_active

\* A paused long break skipped.
C28_Witness ==
    /\ last_op = "skip"
    /\ prev_state = STATE_LONG_BREAK
    /\ ~prev_active
    /\ current_state = STATE_WAITING_FOR_WORK_CONFIRMATION
    /\ ~timer_active
    /\ emitted = <<pomodoro_session_finished(STATE_LONG_BREAK),
                   pomodoro_confirmation_required("work")>>

\* C29: the settings dialog opened and cancelled leaves the state,
\* remaining_seconds, cycles_completed, the configuration and the timer as
\* they were (a running countdown runs again, a paused one stays paused) and
\* emits nothing; while the dialog is open the timer is stopped, so no
\* timeout is handled.
C29_CancelledSettingsChangeNothing ==
    /\ \A offered \in get_logic_config :
          handle_settings_button_click(Self, FALSE, offered) = Self
    /\ ~handle_settings_button_click_open(Self).timer_active
    /\ last_op = "settings_reject" =>
          /\ current_state = prev_state
          /\ timer_active = prev_active
          /\ emitted = <<>>

\* The dialog cancelled during a running short break.
C29_Witness ==
    /\ last_op = "settings_reject"
    /\ prev_state = STATE_SHORT_BREAK
    /\ current_state = STATE_SHORT_BREAK
    /\ prev_active
    /\ timer_active
    /\ remaining_seconds < get_short_break_seconds(logic_config)

\* C30: while a collapse or an expand animation is running, collapse_to_right
\* and expand return at once (no new animation group, no field changed) and
\* the mode is COLLAPSED; collapse_to_right sets the mode to COLLAPSED when
\* it starts its animation; and the mode leaves COLLAPSED only for NORMAL and
\* only when an expand animation finishes, not when a collapse animation
\* finishes and not by the mouse.
C30_AnimationGuardsModes ==
    /\ animation_running(Character) =>
          /\ \A pixmap_is_null \in BOOLEAN :
                collapse_to_right(Character, pixmap_is_null) = Character
          /\ expand(Character) = Character
          /\ char_current_state = COLLAPSED
    /\ (char_current_state = NORMAL /\ ~animation_running(Character)) =>
          LET collapsing == collapse_to_right(Character, FALSE)
          IN  /\ collapsing.current_state = COLLAPSED
              /\ collapsing.animation_group.slot = "collapse"
              /\ animation_running(collapsing)
    /\ (char_prev_state = COLLAPSED /\ char_current_state # COLLAPSED) =>
          /\ char_last_op = "expand_finished"
          /\ char_current_state = NORMAL
    /\ char_last_op = "collapse_finished" => char_current_state = COLLAPSED
    /\ char_last_op = "expand_finished" =>
          /\ char_current_state = NORMAL
          /\ ~animation_running(Character)

\* A left press, which calls expand, while the collapse animation is still
\* running.
C30_Witness ==
    /\ char_last_op = "press"
    /\ left_button_down
    /\ char_prev_state = COLLAPSED
    /\ char_current_state = COLLAPSED
    /\ animation_group.slot = "collapse"
    /\ animation_group.state = "Running"

=============================================================================
